---- MODULE Spec2Model ----
(***************************************************************************)
(* Model of the nuts release server: the request handlers of lib/nuts.js   *)
(* (onDownload, serveAsset, onUpdateOSX, onUpdateWin) and the asset stream *)
(* of lib/backends/github.js, over an LRU asset cache.                     *)
(***************************************************************************)
EXTENDS Integers, Sequences, FiniteSets, TLC

\* ---------------------------------------------------------------- bounds
MaxVersion == 3      \* tags are the versions 1..MaxVersion
MaxReq == 2          \* request slots handled concurrently
MaxLines == 2        \* lines of a RELEASES manifest

\* opts.cacheMax (bytes), scaled to the model's asset sizes of 1..3
cacheMax == 4

Versions == 1..MaxVersion
Req == 1..MaxReq
LATEST == 0          \* the tag 'latest' (req.params.tag || 'latest')

OSX == "osx"
WINDOWS == "windows"
LINUX_64 == "linux_64"

VARIABLES
    releases,   \* the release snapshot served by versions.filter/resolve
    cache,      \* this.cache: the resident entries, most recently used first
    disposed,   \* the entries the last cache.set made the cache dispose of
    reqs,       \* one record per request slot: the handler's position and result
    backend,    \* the memoized release list of the backend and its fetches
    listers,    \* one record per caller of versions.list()
    hooks       \* the number of before-hooks registered under each hook name

vars == <<releases, cache, disposed, reqs, backend, listers, hooks>>

\* what the request handlers leave alone
indexVars == <<backend, listers, hooks>>

\* ------------------------------------------------------ releases, assets
Filenames == {"app-osx.zip", "app-win.exe", "RELEASES"}

FileIndex(f) ==
    CASE f = "app-osx.zip" -> 1
      [] f = "app-win.exe" -> 2
      [] OTHER -> 3

\* platform classification of an asset by its filename
PlatformOfFile(f) == IF f = "app-osx.zip" THEN OSX ELSE WINDOWS

ExtOfFile(f) ==
    CASE f = "app-osx.zip" -> "zip"
      [] f = "app-win.exe" -> "exe"
      [] OTHER -> ""

NoAsset == [id |-> 0, filename |-> "", size |-> 0]

MkAsset(v, f) ==
    [id |-> (v - 1) * Cardinality(Filenames) + FileIndex(f),
     filename |-> f,
     size |-> ((v + FileIndex(f)) % 3) + 1]

AssetMenus ==
    << {"app-osx.zip"},
       {"app-osx.zip", "app-win.exe"},
       {"app-win.exe", "RELEASES"} >>

MkRelease(v, channel, menu) ==
    [tag |-> v,
     channel |-> channel,
     notes |-> v,
     published_at |-> 100 + v,
     platforms |-> {MkAsset(v, f) : f \in AssetMenus[menu]}]

Channels == {"stable", "beta"}

\* a release list: per tag, no release or a release of one channel and asset set
ReleaseChoices == {<<"none", 1>>} \cup (Channels \X DOMAIN AssetMenus)

Snapshots ==
    { { MkRelease(v, f[v][1], f[v][2]) : v \in {w \in Versions : f[w][1] # "none"} } :
        f \in [Versions -> ReleaseChoices] }

\* the snapshot of the concurrent specification: every tag released as stable
FullSnapshot == { MkRelease(v, "stable", 2) : v \in Versions }

\* ------------------------------------------------------ versions.filter
TagLatest == [op |-> "latest", v |-> 0]
TagExact(v) == [op |-> "eq", v |-> v]
TagAtLeast(v) == [op |-> ">=", v |-> v]
TagAny == [op |-> "*", v |-> 0]

ChannelMatches(rel, channel) ==
    \/ channel = "*"
    \/ rel.channel = (IF channel = "" THEN "stable" ELSE channel)

TagSatisfies(rel, tagf) ==
    CASE tagf.op = "eq" -> rel.tag = tagf.v
      [] tagf.op = ">=" -> rel.tag >= tagf.v
      [] OTHER -> TRUE

HasPlatform(rel, platform) ==
    \E a \in rel.platforms : PlatformOfFile(a.filename) = platform

RECURSIVE SortDesc(_)
SortDesc(S) ==
    IF S = {} THEN <<>>
    ELSE LET m == CHOOSE x \in S : \A o \in S : o.tag <= x.tag
         IN <<m>> \o SortDesc(S \ {m})

VersionsFilter(snapshot, opts) ==
    SortDesc({ rel \in snapshot :
                 /\ ChannelMatches(rel, opts.channel)
                 /\ TagSatisfies(rel, opts.tag)
                 /\ (opts.platform # "" => HasPlatform(rel, opts.platform)) })

NoVersion == MkRelease(0, "none", 1)

\* versions.resolve: the first of filter, rejected when the release list cannot
\* be fetched (up = "fail") or when nothing matches
VersionsResolve(snapshot, opts, up) ==
    LET found == VersionsFilter(snapshot, opts)
    IN IF up = "fail" THEN [err |-> "UpstreamFailure", version |-> NoVersion]
       ELSE IF found = <<>> THEN [err |-> "NotFound", version |-> NoVersion]
       ELSE [err |-> "", version |-> found[1]]

\* platforms.resolve(version, platform, {wanted})
PlatformsResolve(version, platform, wanted) ==
    LET matched == { a \in version.platforms :
                       /\ PlatformOfFile(a.filename) = platform
                       /\ ExtOfFile(a.filename) # ""
                       /\ (wanted # "" => ExtOfFile(a.filename) = wanted) }
    IN IF matched = {} THEN NoAsset ELSE CHOOSE a \in matched : TRUE

\* ------------------------------------------------------------ requests
NoParams ==
    [channel |-> "", platform |-> "", tag |-> LATEST, filename |-> "",
     ua |-> "none", filetype |-> "", accept |-> ""]

NoContent == [id |-> 0, kind |-> "none"]

NoUrl == [origin |-> "", route |-> "", tag |-> 0, name |-> "", query |-> ""]

NoJson == [url |-> NoUrl, name |-> 0, notes |-> <<>>, pub_date |-> 0]

MaxHooks == 2        \* before-hooks registered under one name

\* the hooks performQ is called with (lines 137 and 373)
HookNames == {"download", "api"}

NoBody == [type |-> "", notes |-> <<>>, pub_date |-> [iso |-> 0]]

NoLocation == [route |-> "", platform |-> "", tag |-> 0]

ReqIdle ==
    [kind |-> "none", pc |-> "idle", q |-> NoParams, queries |-> <<>>,
     version |-> 0, asset |-> NoAsset, err |-> "", status |-> 0,
     served |-> NoContent, json |-> NoJson, content |-> <<>>, feed |-> <<>>,
     client |-> "open", held |-> "", location |-> NoLocation,
     body |-> NoBody, hooked |-> 0]

UserAgents == {"none", "mac"}
RoutePlatforms == {"", OSX, WINDOWS}
RouteChannels == {"stable", "beta", "*"}
RouteTags == Versions \cup {LATEST}
RouteFilenames == Filenames \cup {"other.bin"}
Filetypes == {"", "zip"}

\* the parameters the download routes of the router can bind (lines 70-74)
RouteParams ==
    { [NoParams EXCEPT !.platform = pl] : pl \in RoutePlatforms }
    \cup { [NoParams EXCEPT !.channel = ch, !.platform = pl] :
             ch \in RouteChannels, pl \in RoutePlatforms }
    \cup { [NoParams EXCEPT !.tag = t, !.platform = pl] :
             t \in RouteTags, pl \in RoutePlatforms }
    \cup { [NoParams EXCEPT !.tag = t, !.filename = f] :
             t \in RouteTags, f \in RouteFilenames }

DownloadParams ==
    { [p EXCEPT !.ua = ua, !.filetype = ft] :
        p \in RouteParams, ua \in UserAgents, ft \in Filetypes }

\* the downloads of the concurrent specification: /download/version/:tag/osx
\* for three tags, whose assets have the sizes 3, 1 and 2
ConcTags == Versions \cap {1, 2, 3}

ConcParams ==
    { [NoParams EXCEPT !.tag = t, !.platform = OSX] : t \in ConcTags }

\* the downloads of the specification with clients going away: two tags,
\* whose assets, of sizes 3 and 2, do not fit the cache together
ServeTags == Versions \cap {1, 3}

ServeParams ==
    { [NoParams EXCEPT !.tag = t, !.platform = OSX] : t \in ServeTags }

\* req.useragent: the four tests of lines 178-181, the last one that holds wins
UADetect(ua) ==
    LET isMac == ua = "mac"
        isWindows == ua = "windows"
        isLinux == ua \in {"linux", "linux64"}
        isLinux64 == ua = "linux64"
        p1 == IF isMac THEN OSX ELSE ""
        p2 == IF isWindows THEN WINDOWS ELSE p1
        p3 == IF isLinux THEN "linux" ELSE p2
    IN IF isLinux64 THEN LINUX_64 ELSE p3

DownloadPlatformDetected(p) ==
    IF p.platform = "" THEN UADetect(p.ua) ELSE p.platform

\* lines 174-187: the platform of the resolution query
DownloadPlatform(p) ==
    IF p.filename = ""
    THEN (IF p.platform = "" THEN UADetect(p.ua) ELSE p.platform)
    ELSE ""

\* line 184: no platform given and none detected, for a download by platform
MissingPlatform(p, platform) == p.filename = "" /\ platform = ""

DownloadChannelRequested(p) == p.channel

\* line 190: a specific tag does not enforce a channel
DownloadChannel(p) == IF p.tag # LATEST THEN "*" ELSE p.channel

TagQuery(tag) == IF tag = LATEST THEN TagLatest ELSE TagExact(tag)

\* lines 199-207: the handler of a failed resolution. The retry reads the
\* undeclared name versions (line 202), which throws a ReferenceError.
DownloadFallback(channel, tag, first) ==
    IF first.err = "" THEN first
    ELSE IF channel # "" \/ tag # LATEST THEN first
    ELSE [err |-> "ReferenceError", version |-> NoVersion]

\* lines 211-221: the asset to serve
DownloadAsset(version, p, platform) ==
    IF p.filename # ""
    THEN (IF \E a \in version.platforms : a.filename = p.filename
          THEN CHOOSE a \in version.platforms : a.filename = p.filename
          ELSE NoAsset)
    ELSE PlatformsResolve(version, platform, p.filetype)

\* onDownload up to the call of serveAsset
OnDownload(r, p, up) ==
    /\ reqs[r].pc = "idle"
    /\ LET platform == DownloadPlatform(p)
           channel == DownloadChannel(p)
           query == [channel |-> channel, platform |-> platform, tag |-> TagQuery(p.tag)]
           first == VersionsResolve(releases, query, up)
           res == DownloadFallback(channel, p.tag, first)
           asset == DownloadAsset(res.version, p, platform)
           base == [ReqIdle EXCEPT !.kind = "download", !.q = p]
           asked == [base EXCEPT !.queries =
                        <<[channel |-> channel, platform |-> platform, tag |-> p.tag,
                           result |-> IF first.err = "" THEN "ok" ELSE first.err]>>]
       IN reqs' = [reqs EXCEPT ![r] =
            IF MissingPlatform(p, platform)
            THEN [base EXCEPT !.pc = "done", !.err = "NoPlatform"]
            ELSE IF res.err # ""
            THEN [asked EXCEPT !.pc = "done", !.err = res.err]
            ELSE IF asset = NoAsset
            THEN [asked EXCEPT !.pc = "done", !.err = "NoDownload",
                               !.version = res.version.tag]
            ELSE [asked EXCEPT !.pc = "serve", !.version = res.version.tag,
                               !.asset = asset]]
    /\ UNCHANGED <<releases, cache, disposed, indexVars>>

\* ------------------------------------------------------- update checks
UpdatePlatforms == {"osx", "darwin", "win_32"}

UpdateParams ==
    { [NoParams EXCEPT !.platform = pl, !.tag = v] :
        pl \in UpdatePlatforms, v \in Versions }

\* the query of GET /update: each of version and platform given or not
UpdateQueries ==
    { [NoParams EXCEPT !.platform = pl, !.tag = v] :
        pl \in UpdatePlatforms \cup {""}, v \in Versions \cup {0} }

RedirectAlways(p) == ""

\* lines 236-237: the parameter a GET /update lacks
MissingParameter(p) ==
    IF p.tag = 0 THEN "RequiresVersion"
    ELSE IF p.platform = "" THEN "RequiresPlatform"
    ELSE ""

\* onUpdate (lines 233-242): the redirect to the update check of the platform
OnUpdate(r, p) ==
    /\ reqs[r].pc = "idle"
    /\ LET base == [ReqIdle EXCEPT !.kind = "update", !.q = p, !.pc = "done"]
       IN reqs' = [reqs EXCEPT ![r] =
            IF MissingParameter(p) # "" THEN [base EXCEPT !.err = MissingParameter(p)]
            ELSE [base EXCEPT !.status = 302,
                              !.location = [route |-> "/update", platform |-> p.platform,
                                            tag |-> p.tag]]]
    /\ UNCHANGED <<releases, cache, disposed, indexVars>>

\* platforms.detect: the platform a name stands for
PlatformsDetect(name) == IF name \in {"osx", "darwin"} THEN OSX ELSE WINDOWS

\* getFullUrl(req) (lines 18-20) and url.resolve(fullUrl, path) for an absolute
\* path: the origin of the request, then the path
Origin == "http://nuts.host"

UrlResolve(route, tag, name, query) ==
    [origin |-> Origin, route |-> route, tag |-> tag, name |-> name, query |-> query]

\* notes.merge(versions, {includeTag: false}): the notes in the given order
NotesMerge(versions) == [i \in DOMAIN versions |-> versions[i].notes]

\* versions.slice(0, -1)
DropLast(versions) == SubSeq(versions, 1, Len(versions) - 1)

NoUpdateWhenEmpty(versions, tag) == versions = <<>>

\* line 266: no update when nothing matched or the first match is the queried tag
NoUpdate(versions, tag) == versions = <<>> \/ versions[1].tag = tag

\* line 268
ReleaseNotes(versions) == NotesMerge(DropLast(versions))

\* lines 270-275
UpdateJson(versions, platform) ==
    [url |-> UrlResolve("/download/version", versions[1].tag, platform, "filetype=zip"),
     name |-> versions[1].tag,
     notes |-> ReleaseNotes(versions),
     pub_date |-> versions[1].published_at]

UpdateQuery(tag, platform) ==
    [channel |-> "*", platform |-> platform, tag |-> TagAtLeast(tag)]

OnUpdateOSX(r, p, up) ==
    /\ reqs[r].pc = "idle"
    /\ LET platform == PlatformsDetect(p.platform)
           versions == VersionsFilter(releases, UpdateQuery(p.tag, platform))
           base == [ReqIdle EXCEPT !.kind = "osx", !.q = p, !.pc = "done"]
       IN reqs' = [reqs EXCEPT ![r] =
            IF MissingParameter(p) # "" THEN [base EXCEPT !.err = MissingParameter(p)]
            ELSE IF up = "fail" THEN [base EXCEPT !.err = "UpstreamFailure"]
            ELSE IF NoUpdate(versions, p.tag) THEN [base EXCEPT !.status = 204]
            ELSE [base EXCEPT !.status = 200, !.json = UpdateJson(versions, platform)]]
    /\ UNCHANGED <<releases, cache, disposed, indexVars>>

\* ------------------------------------------------------ release notes
\* what the Accept header of a notes request selects in res.format: one of
\* the two types, or neither
Accepts == {"text/plain", "application/json", "other"}

\* GET /notes/:version?
NotesParams ==
    { [NoParams EXCEPT !.tag = v, !.accept = a] :
        v \in Versions \cup {LATEST}, a \in Accepts }

\* lines 343-346
NotesQuery(tag) ==
    [channel |-> "*", platform |-> "",
     tag |-> IF tag # LATEST THEN TagAtLeast(tag) ELSE TagAny]

\* notes.merge(versions): the notes in the given order, each under its tag
NotesMergeTagged(versions) ==
    [i \in DOMAIN versions |-> [tag |-> versions[i].tag, notes |-> versions[i].notes]]

\* Date.prototype.toISOString
ToISOString(date) == [iso |-> date]

\* lines 352-365, res.format: the branch of the accepted type answers; the
\* default branch reads the undeclared name releaseNotes (line 363), which
\* throws a ReferenceError
NotesFormat(req, versions, accept) ==
    CASE accept = "text/plain" ->
           [req EXCEPT !.status = 200,
                       !.body = [type |-> "text/plain",
                                 notes |-> NotesMergeTagged(versions),
                                 pub_date |-> [iso |-> 0]]]
      [] accept = "application/json" ->
           [req EXCEPT !.status = 200,
                       !.body = [type |-> "application/json",
                                 notes |-> NotesMerge(versions),
                                 pub_date |-> ToISOString(versions[1].published_at)]]
      [] OTHER -> [req EXCEPT !.err = "ReferenceError"]

\* onServeNotes (lines 337-369)
OnServeNotes(r, p, up) ==
    /\ reqs[r].pc = "idle"
    /\ LET versions == VersionsFilter(releases, NotesQuery(p.tag))
           base == [ReqIdle EXCEPT !.kind = "notes", !.q = p, !.pc = "done"]
       IN reqs' = [reqs EXCEPT ![r] =
            IF up = "fail" THEN [base EXCEPT !.err = "UpstreamFailure"]
            ELSE IF versions = <<>> THEN [base EXCEPT !.err = "NoVersionsMatching"]
            ELSE NotesFormat(base, versions, p.accept)]
    /\ UNCHANGED <<releases, cache, disposed, indexVars>>

\* ------------------------------------------------- the RELEASES manifest
ManifestLines ==
    { [sha |-> "h1", filename |-> "app-1-full.nupkg", size |-> 10],
      [sha |-> "h2", filename |-> "app-2-delta.nupkg", size |-> 20],
      [sha |-> "h3", filename |-> "", size |-> 0] }

WellFormed(line) == line.filename # ""

Manifests == UNION { [1..n -> ManifestLines] : n \in 0..MaxLines }

SemverOfFile(f) == IF f = "app-1-full.nupkg" THEN 1 ELSE 2

\* winReleases.parse: one entry per line; a malformed line fails the decoding
WinParse(content) ==
    IF \E i \in DOMAIN content : ~WellFormed(content[i])
    THEN [err |-> "DecodeFailure", entries |-> <<>>]
    ELSE [err |-> "",
          entries |-> [i \in DOMAIN content |->
                         [sha |-> content[i].sha, filename |-> content[i].filename,
                          size |-> content[i].size,
                          semver |-> SemverOfFile(content[i].filename)]]]

\* winReleases.generate: a line of hash, filename and size per entry
WinGenerate(entries) ==
    [i \in DOMAIN entries |->
       [sha |-> entries[i].sha, filename |-> entries[i].filename, size |-> entries[i].size]]

RewriteEntryVersionRoute(entry) ==
    [entry EXCEPT !.filename =
        UrlResolve("/download/version", entry.semver, entry.filename, "")]

\* lines 318-322: the filename becomes a URL of the download proxy
RewriteEntry(entry) ==
    [entry EXCEPT !.filename = UrlResolve("/download", entry.semver, entry.filename, "")]

\* lines 315-326
RewriteFeed(entries) == WinGenerate([i \in DOMAIN entries |-> RewriteEntry(entries[i])])

\* lines 306-309
FindReleasesAsset(latest) ==
    IF \E a \in latest.platforms : a.filename = "RELEASES"
    THEN CHOOSE a \in latest.platforms : a.filename = "RELEASES"
    ELSE NoAsset

\* onUpdateWin up to the call of backend.readAsset
OnUpdateWin(r, p, up) ==
    /\ reqs[r].pc = "idle"
    /\ LET platform == PlatformsDetect("win_32")
           versions == VersionsFilter(releases, UpdateQuery(p.tag, platform))
           base == [ReqIdle EXCEPT !.kind = "win", !.q = p, !.pc = "done"]
       IN reqs' = [reqs EXCEPT ![r] =
            IF up = "fail" THEN [base EXCEPT !.err = "UpstreamFailure"]
            ELSE IF versions = <<>> THEN [base EXCEPT !.err = "VersionNotFound"]
            ELSE IF FindReleasesAsset(versions[1]) = NoAsset
            THEN [base EXCEPT !.err = "FileNotFound", !.version = versions[1].tag]
            ELSE [base EXCEPT !.pc = "readAsset", !.version = versions[1].tag,
                              !.asset = FindReleasesAsset(versions[1])]]
    /\ UNCHANGED <<releases, cache, disposed, indexVars>>

SendFeedOfDecodedLines(req, content) ==
    LET good == SelectSeq(content, WellFormed)
    IN [req EXCEPT !.pc = "done", !.content = content, !.status = 200,
                   !.feed = RewriteFeed(WinParse(good).entries)]

\* lines 312-331: the manifest read from the backend is decoded, rewritten,
\* regenerated and sent
SendFeed(req, content) ==
    IF WinParse(content).err # ""
    THEN [req EXCEPT !.pc = "done", !.content = content, !.err = WinParse(content).err]
    ELSE [req EXCEPT !.pc = "done", !.content = content, !.status = 200,
                     !.feed = RewriteFeed(WinParse(content).entries)]

ReadAssetDone(r, content) ==
    /\ reqs[r].pc = "readAsset"
    /\ reqs' = [reqs EXCEPT ![r] = SendFeed(reqs[r], content)]
    /\ UNCHANGED <<releases, cache, disposed, indexVars>>

\* backend.readAsset rejecting
ReadAssetFail(r) ==
    /\ reqs[r].pc = "readAsset"
    /\ reqs' = [reqs EXCEPT ![r].pc = "done", ![r].err = "ReadFailure"]
    /\ UNCHANGED <<releases, cache, disposed, indexVars>>

\* ------------------------------------------------------------ the cache
TotalBytes(c) ==
    LET RECURSIVE Sum(_)
        Sum(i) == IF i = 0 THEN 0 ELSE c[i].size + Sum(i - 1)
    IN Sum(Len(c))

CacheKeys(c) == { c[i].key : i \in DOMAIN c }
CacheHas(c, key) == key \in CacheKeys(c)
CacheEntry(c, key) == c[CHOOSE i \in DOMAIN c : c[i].key = key]
CacheWithout(c, key) == SelectSeq(c, LAMBDA e : e.key # key)

CacheMaxAgeGiven == cacheMax + cacheMax

\* the option max given to the cache (lines 58-61)
CacheMaxOpt == cacheMax

RECURSIVE CacheTrim(_)
CacheTrim(c) ==
    IF TotalBytes(c) > CacheMaxOpt THEN CacheTrim(SubSeq(c, 1, Len(c) - 1)) ELSE c

\* cache.set once the stream has been written: the entry becomes the most
\* recently used, the least recently used entries leave until the total fits
CacheSet(c, key, size, kind) ==
    IF size > CacheMaxOpt THEN CacheWithout(c, key)
    ELSE CacheTrim(<<[key |-> key, size |-> size, kind |-> kind]>> \o CacheWithout(c, key))

\* a read makes the entry the most recently used
CacheTouch(c, key) == <<CacheEntry(c, key)>> \o CacheWithout(c, key)

\* ----------------------------------------------------------- serveAsset
\* lines 141-152: the headers are set, then the cache is asked for the key; on
\* a miss the backend request for the asset is made (getAssetStream)
ServeAlwaysFetch(c, asset) == TRUE

ServeMiss(c, asset) == ~CacheHas(c, asset.id)

\* ---------------------------------------------------------------- hooks
HookName(req) == IF req.kind = "api" THEN "api" ELSE "download"

HooksIgnored(req) == TRUE

\* performQ (lines 113-126): perform runs the work function once every
\* before-hook registered under the name has called next without an error
HooksPassed(req) == req.hooked = hooks[HookName(req)]

\* the next before-hook of a request waiting in performQ calls next, with an
\* error or without
BeforeHook(r, up) ==
    /\ reqs[r].pc \in {"serve", "api"}
    /\ reqs[r].hooked < hooks[HookName(reqs[r])]
    /\ reqs' = [reqs EXCEPT ![r] =
          IF up = "fail" THEN [@ EXCEPT !.pc = "done", !.err = "HookError"]
          ELSE [@ EXCEPT !.hooked = @ + 1]]
    /\ UNCHANGED <<releases, cache, disposed, indexVars>>

\* a request under /api reaches onAPIAccessControl (lines 83 and 372-380)
OnAPIAccessControl(r) ==
    /\ reqs[r].pc = "idle"
    /\ reqs' = [reqs EXCEPT ![r] = [ReqIdle EXCEPT !.kind = "api", !.pc = "api"]]
    /\ UNCHANGED <<releases, cache, disposed, indexVars>>

\* lines 85-92: next() of the access control reaches the route of the method,
\* whose result is sent, or whose error is passed on
APIMethod(r, up) ==
    /\ reqs[r].pc = "api"
    /\ HooksPassed(reqs[r])
    /\ reqs' = [reqs EXCEPT ![r] =
          IF up = "fail" THEN [@ EXCEPT !.pc = "done", !.err = "APIError"]
          ELSE [@ EXCEPT !.pc = "done", !.status = 200]]
    /\ UNCHANGED <<releases, cache, disposed, indexVars>>

\* what the cache holds under the key when it is asked: the content a stream
\* opened at that moment reads, "" when there is none
Held(c, key) == IF CacheHas(c, key) THEN CacheEntry(c, key).kind ELSE ""

\* lines 147-148: cache.has(key) and, in the same turn, cache.getStream(key),
\* which opens the stream on the entry and makes it the most recently used
ServeAsset(r) ==
    /\ reqs[r].pc = "serve"
    /\ HooksPassed(reqs[r])
    /\ LET key == reqs[r].asset.id
           miss == ServeMiss(cache, reqs[r].asset)
       IN /\ reqs' = [reqs EXCEPT ![r].pc = IF miss THEN "streaming" ELSE "reading",
                                  ![r].held = Held(cache, key)]
          /\ cache' = IF miss THEN cache ELSE CacheTouch(cache, key)
    /\ UNCHANGED <<releases, disposed, indexVars>>

StreamReadOfEntry(c, req) ==
    IF CacheHas(c, req.asset.id) THEN CacheEntry(c, req.asset.id).kind ELSE "partial"

\* what a reader gets from the stream it holds: the content the entry had when
\* the stream was opened, whatever became of the entry since
StreamRead(c, req) == req.held

\* lines 148-149: cache.getStream(key).then(outputStream), the stream read
\* piped to the response
CacheGetStream(r) ==
    /\ reqs[r].pc = "reading"
    /\ reqs' = [reqs EXCEPT ![r].pc = "done", ![r].status = 200,
                   ![r].served = [id |-> reqs[r].asset.id,
                                  kind |-> StreamRead(cache, reqs[r])]]
    /\ UNCHANGED <<releases, cache, disposed, indexVars>>

\* the bytes of a stream that ended: the asset, or the body of an error response
StreamBytes(asset, kind) == IF kind = "full" THEN asset.size ELSE 1

\* what serveAsset stores for a stream that ended (line 156)
StoreStream(c, asset, kind) ==
    CacheSet(c, asset.id, StreamBytes(asset, kind), kind)

\* the entries a cache.set disposed of, most recently used first
Disposed(c, c2, key) ==
    SelectSeq(c, LAMBDA e : e.key # key /\ e.key \notin CacheKeys(c2))

CacheWrittenOfClientCopy(req, kind) == IF req.client = "gone" THEN "partial" ELSE kind

\* outputStream (lines 133-135), stream.pipe(res): the copy the client gets
\* stops where the client went away
PipeToRes(req, kind) == IF req.client = "gone" THEN "partial" ELSE kind

\* line 156, cache.set(cacheKey, stream): the cache reads the backend stream
\* itself, not the copy made for the client
CacheWritten(req, kind) == kind

\* the client of a request whose asset is being fetched closes the connection
ClientDisconnect(r) ==
    /\ reqs[r].pc = "streaming"
    /\ reqs[r].client = "open"
    /\ reqs' = [reqs EXCEPT ![r].client = "gone"]
    /\ UNCHANGED <<releases, cache, disposed, indexVars>>

\* lines 153-160, the backend answering with the asset: the stream is written
\* to the cache and piped to the response
AssetStreamOk(r) ==
    /\ reqs[r].pc = "streaming"
    /\ cache' = StoreStream(cache, reqs[r].asset, CacheWritten(reqs[r], "full"))
    /\ disposed' = Disposed(cache, cache', reqs[r].asset.id)
    /\ reqs' = [reqs EXCEPT ![r].pc = "done", ![r].status = 200,
                   ![r].served = [id |-> reqs[r].asset.id,
                                  kind |-> PipeToRes(reqs[r], "full")]]
    /\ UNCHANGED <<releases, indexVars>>

\* the backend answering with an error status: request() streams the body of
\* the error response, and getAssetStream (lines 66-71) fulfils its promise
\* with that stream all the same
AssetStreamHttpError(r) ==
    /\ reqs[r].pc = "streaming"
    /\ cache' = StoreStream(cache, reqs[r].asset, CacheWritten(reqs[r], "errbody"))
    /\ disposed' = Disposed(cache, cache', reqs[r].asset.id)
    /\ reqs' = [reqs EXCEPT ![r].pc = "done", ![r].status = 200,
                   ![r].served = [id |-> reqs[r].asset.id,
                                  kind |-> PipeToRes(reqs[r], "errbody")]]
    /\ UNCHANGED <<releases, indexVars>>

\* the backend stream breaking while it is read: neither pipe ends, the cache
\* write never finishes and no promise of the request settles
AssetStreamBroken(r) ==
    /\ reqs[r].pc = "streaming"
    /\ reqs' = [reqs EXCEPT ![r].pc = "stalled", ![r].status = 200,
                   ![r].served = [id |-> reqs[r].asset.id, kind |-> "partial"]]
    /\ UNCHANGED <<releases, cache, disposed, indexVars>>

\* lines 154-160 and 228: the promise of cache.set is rejected (the write to
\* the disk failed) after the stream was piped to the response; Q.all rejects
\* and the fail handler of onDownload passes the error to next, while the
\* response has started. How much of the asset the client gets is left open.
CacheWriteFail(r) ==
    /\ reqs[r].pc = "streaming"
    /\ \E kind \in {"full", "partial"} :
          reqs' = [reqs EXCEPT ![r].pc = "done", ![r].status = 200,
                      ![r].err = "CacheWriteError",
                      ![r].served = [id |-> reqs[r].asset.id,
                                     kind |-> PipeToRes(reqs[r], kind)]]
    /\ UNCHANGED <<releases, cache, disposed, indexVars>>

\* opts.cacheMaxAge elapsing for an entry: the cache drops it
Expire(key) ==
    /\ CacheHas(cache, key)
    /\ cache' = CacheWithout(cache, key)
    /\ UNCHANGED <<releases, disposed, reqs, indexVars>>

\* the slot takes the next request
Finish(r) ==
    /\ reqs[r].pc \in {"done", "stalled"}
    /\ reqs' = [reqs EXCEPT ![r] = ReqIdle]
    /\ UNCHANGED <<releases, cache, disposed, indexVars>>

\* ------------------------------------------------------ the release list
MaxFetch == 3        \* backend release-list calls of a behaviour
MaxKey == 2          \* changes of the memoization key (webhook events, TTL)

NoLister == [pc |-> "idle", fetch |-> 0, key |-> 0, events |-> 0, result |-> ""]

BackendInit == [key |-> 0, memo |-> 0, events |-> 0, fetches |-> <<>>]

\* _releases (github.js lines 41-46): one more backend call, in flight
StartFetch(b, by) ==
    [b EXCEPT !.fetches = Append(@, [state |-> "pending", key |-> b.key,
                                     events |-> b.events, by |-> by]),
              !.memo = Len(b.fetches) + 1]

ReleasesUnmemoized(b, by) == StartFetch(b, by)

\* this.releases = this.memoize(this._releases) (github.js line 23): the call
\* made under the current key is shared until the key changes
Releases(b, by) == IF b.memo # 0 THEN b ELSE StartFetch(b, by)

\* onRelease(): the memoization key changes, nothing is held under the new one
OnRelease(b) == [b EXCEPT !.key = @ + 1, !.memo = 0, !.events = @ + 1]

WebhookListOnly(b) == Releases([b EXCEPT !.events = @ + 1], "event")

\* the handler of the 'release' event (github.js lines 32-35): onRelease(), then
\* versions.list()
WebhookHandler(b) == Releases(OnRelease(b), "event")

CanFetch(b) == Len(b.fetches) < MaxFetch

\* versions.list() of a caller
List(c) ==
    /\ listers[c].pc = "idle"
    /\ CanFetch(backend)
    /\ backend' = Releases(backend, "caller")
    /\ listers' = [listers EXCEPT ![c] =
          [pc |-> "waiting", fetch |-> backend'.memo, key |-> backend.key,
           events |-> backend.events, result |-> ""]]
    /\ UNCHANGED <<releases, cache, disposed, reqs, hooks>>

\* the backend answers a release-list call; a failed call is not held
FetchDone(i, up) ==
    /\ i \in DOMAIN backend.fetches
    /\ backend.fetches[i].state = "pending"
    /\ backend' = [backend EXCEPT
          !.fetches[i].state = up,
          !.memo = IF up = "fail" /\ @ = i THEN 0 ELSE @]
    /\ UNCHANGED <<releases, cache, disposed, reqs, listers, hooks>>

\* the promise a caller holds settles
Answer(c) ==
    /\ listers[c].pc = "waiting"
    /\ backend.fetches[listers[c].fetch].state # "pending"
    /\ listers' = [listers EXCEPT ![c].pc = "done",
          ![c].result = backend.fetches[listers[c].fetch].state]
    /\ UNCHANGED <<releases, cache, disposed, reqs, backend, hooks>>

ListerFinish(c) ==
    /\ listers[c].pc = "done"
    /\ listers' = [listers EXCEPT ![c] = NoLister]
    /\ UNCHANGED <<releases, cache, disposed, reqs, backend, hooks>>

Webhook ==
    /\ backend.key < MaxKey
    /\ CanFetch(backend)
    /\ backend' = WebhookHandler(backend)
    /\ UNCHANGED <<releases, cache, disposed, reqs, listers, hooks>>

\* the timeout of the release cache elapsing: the key changes
TTLElapsed ==
    /\ backend.key < MaxKey
    /\ backend' = [backend EXCEPT !.key = @ + 1, !.memo = 0]
    /\ UNCHANGED <<releases, cache, disposed, reqs, listers, hooks>>

\* ------------------------------------------------------- specifications
Ups == {"ok", "fail"}

\* one request of any kind, against any release list, on a cold cache
Init ==
    /\ releases \in Snapshots
    /\ cache = <<>>
    /\ disposed = <<>>
    /\ reqs = [r \in Req |-> ReqIdle]
    /\ backend = BackendInit
    /\ listers = [c \in Req |-> NoLister]
    /\ hooks = [n \in HookNames |-> 0]

Next ==
    \/ \E p \in DownloadParams, up \in Ups : OnDownload(1, p, up)
    \/ ServeAsset(1)
    \/ AssetStreamOk(1)
    \/ AssetStreamHttpError(1)
    \/ AssetStreamBroken(1)
    \/ \E p \in UpdateQueries : OnUpdate(1, p)
    \/ \E p \in UpdateParams, up \in Ups : OnUpdateOSX(1, p, up)
    \/ \E p \in UpdateParams, up \in Ups : OnUpdateWin(1, p, up)
    \/ \E p \in NotesParams, up \in Ups : OnServeNotes(1, p, up)
    \/ \E content \in Manifests : ReadAssetDone(1, content)
    \/ ReadAssetFail(1)

Spec == Init /\ [][Next]_vars

\* concurrent downloads over one release list and a shared cache
InitConc ==
    /\ releases = FullSnapshot
    /\ cache = <<>>
    /\ disposed = <<>>
    /\ reqs = [r \in Req |-> ReqIdle]
    /\ backend = BackendInit
    /\ listers = [c \in Req |-> NoLister]
    /\ hooks = [n \in HookNames |-> 0]

NextConc ==
    \/ \E r \in Req, p \in ConcParams, up \in Ups : OnDownload(r, p, up)
    \/ \E r \in Req : ServeAsset(r)
    \/ \E r \in Req : CacheGetStream(r)
    \/ \E r \in Req : AssetStreamOk(r)
    \/ \E r \in Req : AssetStreamHttpError(r)
    \/ \E r \in Req : AssetStreamBroken(r)
    \/ \E r \in Req : Finish(r)
    \/ \E k \in CacheKeys(cache) : Expire(k)

SpecConc == InitConc /\ [][NextConc]_vars

\* concurrent downloads whose clients may go away while the asset is fetched
InitServe == InitConc

NextServe ==
    \/ \E r \in Req, p \in ServeParams, up \in Ups : OnDownload(r, p, up)
    \/ \E r \in Req : ServeAsset(r)
    \/ \E r \in Req : CacheGetStream(r)
    \/ \E r \in Req : AssetStreamOk(r)
    \/ \E r \in Req : AssetStreamHttpError(r)
    \/ \E r \in Req : AssetStreamBroken(r)
    \/ \E r \in Req : Finish(r)
    \/ \E k \in CacheKeys(cache) : Expire(k)
    \/ \E r \in Req : ClientDisconnect(r)
    \/ \E r \in Req : CacheWriteFail(r)

SpecServe == InitServe /\ [][NextServe]_vars

\* downloads and API calls of one client after another, with before-hooks
\* registered
InitHooks ==
    /\ releases = FullSnapshot
    /\ cache = <<>>
    /\ disposed = <<>>
    /\ reqs = [r \in Req |-> ReqIdle]
    /\ backend = BackendInit
    /\ listers = [c \in Req |-> NoLister]
    /\ hooks \in [HookNames -> 0..MaxHooks]

NextHooks ==
    \/ \E p \in ConcParams, up \in Ups : OnDownload(1, p, up)
    \/ OnAPIAccessControl(1)
    \/ \E up \in Ups : BeforeHook(1, up)
    \/ ServeAsset(1)
    \/ CacheGetStream(1)
    \/ AssetStreamOk(1)
    \/ AssetStreamHttpError(1)
    \/ AssetStreamBroken(1)
    \/ \E up \in Ups : APIMethod(1, up)
    \/ Finish(1)

SpecHooks == InitHooks /\ [][NextHooks]_vars

\* callers of the release list, webhook events and the release cache timeout
InitIndex == InitConc

NextIndex ==
    \/ \E c \in Req : List(c)
    \/ \E i \in 1..MaxFetch, up \in Ups : FetchDone(i, up)
    \/ \E c \in Req : Answer(c)
    \/ \E c \in Req : ListerFinish(c)
    \/ Webhook
    \/ TTLElapsed

SpecIndex == InitIndex /\ [][NextIndex]_vars

\* ================================================================ claims
Downloads == { r \in Req : reqs[r].kind = "download" }
Fetching(r) == reqs[r].kind = "download" /\ reqs[r].pc = "streaming"

\* the releases of any channel that have an asset for the platform
WithPlatform(platform) == { rel \in releases : HasPlatform(rel, platform) }

Highest(S) == CHOOSE x \in S : \A o \in S : o.tag <= x.tag

\* C1: downloads of one asset that all found it absent from the cache share a
\* single backend fetch: no two requests ever hold their own backend stream of
\* the same asset id at the same time.
C1_SingleFlight ==
    \A r1 \in Req, r2 \in Req :
        (r1 # r2 /\ Fetching(r1) /\ Fetching(r2))
            => reqs[r1].asset.id # reqs[r2].asset.id

\* C2: a download of tag 'latest' whose channel-filtered resolution found no
\* release makes a second resolution with the wildcard channel and the same
\* platform and tag, and resolves to the highest release of any channel that
\* has an asset for the platform whenever there is one.
C2_FallbackResolves ==
    \A r \in Downloads :
        LET req == reqs[r]
        IN (/\ req.q.tag = LATEST
            /\ req.queries # <<>>
            /\ req.queries[1].result = "NotFound")
           => /\ Len(req.queries) = 2
              /\ req.queries[2].channel = "*"
              /\ req.queries[2].platform = req.queries[1].platform
              /\ req.queries[2].tag = LATEST
              /\ (req.queries[1].platform # ""
                  /\ WithPlatform(req.queries[1].platform) # {}
                  /\ req.queries[2].result = "ok")
                 => req.version = Highest(WithPlatform(req.queries[1].platform)).tag

\* C3: the error of a download whose resolution failed because the backend
\* failed is that upstream error.
C3_UpstreamErrorKept ==
    \A r \in Downloads :
        (/\ reqs[r].pc = "done"
         /\ reqs[r].queries # <<>>
         /\ reqs[r].queries[1].result = "UpstreamFailure")
        => reqs[r].err = "UpstreamFailure"

\* C4: a failed backend fetch of an asset leaves no cache entry for it, and the
\* request that waited on it ends with the error.
C4_FailuresNotCached ==
    /\ \A i \in DOMAIN cache : cache[i].kind = "full"
    /\ \A r \in Downloads :
        (reqs[r].pc \in {"done", "stalled"} /\ reqs[r].served.kind \in {"errbody", "partial"})
            => reqs[r].err # ""

\* C5: the bytes of the resident cache entries never exceed cacheMax; a
\* cache.set disposes of entries in least-recently-used order (an entry other
\* than the one written stays only if every more recently used one stays), and
\* of no more entries than the new one needs to fit.
\* a step in which the cache.set of a request completes
CacheSetStep == \E r \in Req : reqs[r].pc = "streaming" /\ reqs'[r].pc = "done"

LRUOrderKept ==
    CacheSetStep =>
        /\ \A i \in DOMAIN cache, j \in DOMAIN cache :
              (/\ i < j
               /\ cache[j].key \in CacheKeys(cache')
               /\ cache[j].key # cache'[1].key)
                  => cache[i].key \in CacheKeys(cache')
        /\ disposed' # <<>> => TotalBytes(cache') + disposed'[1].size > cacheMax

C5_BoundedStorage ==
    /\ [](TotalBytes(cache) <= cacheMax)
    /\ [][LRUOrderKept]_vars

\* a cache.set that had to dispose of two entries to fit the new one
C5_Witness ==
    /\ Len(disposed) >= 2
    /\ cache # <<>>
    /\ TotalBytes(cache) + disposed[1].size > cacheMax

\* ---------------------------------------------------------------- C6, C7
OSXChecks == { r \in Req : reqs[r].kind = "osx" /\ reqs[r].pc = "done" }

\* the releases at or above the queried version that have an asset for the
\* platform of an update check
AtLeast(req) ==
    { rel \in releases :
        rel.tag >= req.q.tag /\ HasPlatform(rel, PlatformsDetect(req.q.platform)) }

\* C6: an answered Mac update check is answered 204 exactly when no release
\* with an asset for the platform is newer than the queried version; otherwise
\* it is a 200 whose name, url and pub_date are those of the highest release at
\* or above the queried version that has an asset for the platform.
C6_UpdateOutcome ==
    \A r \in OSXChecks :
        LET req == reqs[r]
            newer == { rel \in AtLeast(req) : rel.tag > req.q.tag }
            top == Highest(AtLeast(req))
        IN req.err = "" =>
            /\ req.status \in {200, 204}
            /\ req.status = 204 <=> newer = {}
            /\ req.status = 200 =>
                /\ req.json.name = top.tag
                /\ req.json.pub_date = top.published_at
                /\ req.json.url =
                     [origin |-> Origin, route |-> "/download/version", tag |-> top.tag,
                      name |-> PlatformsDetect(req.q.platform), query |-> "filetype=zip"]

\* an update found while the queried version is itself released for the platform
C6_Witness ==
    \E r \in OSXChecks :
        /\ reqs[r].status = 200
        /\ reqs[r].json.name > reqs[r].q.tag
        /\ \E rel \in AtLeast(reqs[r]) : rel.tag = reqs[r].q.tag

\* C7: the notes of an available update are those of every matched release
\* but the one tagged with the queried version, in descending order, whether
\* or not a release with that tag is among the matched ones.
C7_NotesExcludeQueriedOnly ==
    \A r \in OSXChecks :
        LET req == reqs[r]
            matched == SortDesc(AtLeast(req))
            others == SelectSeq(matched, LAMBDA rel : rel.tag # req.q.tag)
        IN req.status = 200 =>
            req.json.notes = [i \in DOMAIN others |-> others[i].notes]

\* ---------------------------------------------------------------- C8, C9
WinFeeds == { r \in Req : reqs[r].kind = "win" }

\* the releases at or above the queried version that have a Windows asset
WinAtLeast(req) ==
    { rel \in releases : rel.tag >= req.q.tag /\ HasPlatform(rel, WINDOWS) }

C9_FeedAllOrNothing ==
    \A r \in WinFeeds :
        LET req == reqs[r]
            noFile == \A a \in Highest(WinAtLeast(req)).platforms : a.filename # "RELEASES"
            failed == \/ WinAtLeast(req) = {}
                      \/ noFile
                      \/ \E i \in DOMAIN req.content : ~WellFormed(req.content[i])
        IN /\ req.err # "" => req.status = 0 /\ req.feed = <<>>
           /\ req.status # 0 =>
                /\ req.pc = "done" /\ req.err = ""
                /\ \A i \in DOMAIN req.content : WellFormed(req.content[i])
                /\ Len(req.feed) = Len(req.content)
           /\ (req.pc = "done" /\ failed) => req.err # ""
           /\ (req.pc = "readAsset") => ~(WinAtLeast(req) = {} \/ noFile)

\* a manifest with a malformed line after a well-formed one ended the request
\* with the decode error
C9_Witness ==
    \E r \in WinFeeds :
        /\ reqs[r].pc = "done"
        /\ reqs[r].err = "DecodeFailure"
        /\ Len(reqs[r].content) = 2
        /\ WellFormed(reqs[r].content[1])

\* ------------------------------------------------------------------- C10
ReleaseOf(tag) == CHOOSE rel \in releases : rel.tag = tag

\* C10: a download that names a file resolves with no platform filter; the
\* asset handed to serveAsset is the asset of the resolved release with exactly
\* that filename, and when the resolved release has none the request ends with
\* the "no download available" error and nothing is served.
C10_FilenameLookup ==
    \A r \in Downloads :
        LET req == reqs[r]
        IN req.q.filename # "" =>
            /\ req.queries # <<>>
            /\ \A i \in DOMAIN req.queries : req.queries[i].platform = ""
            /\ req.asset # NoAsset =>
                /\ req.asset.filename = req.q.filename
                /\ req.asset \in ReleaseOf(req.version).platforms
            /\ (req.version # 0 /\ \A a \in ReleaseOf(req.version).platforms :
                                      a.filename # req.q.filename)
                => /\ req.pc = "done"
                   /\ req.err = "NoDownload"
                   /\ req.served = NoContent /\ req.status = 0
            /\ (req.version # 0 /\ \E a \in ReleaseOf(req.version).platforms :
                                      a.filename = req.q.filename)
                => req.asset # NoAsset /\ req.err = ""

\* a named Windows file was served to a request from a Mac user agent
C10_Witness ==
    \E r \in Downloads :
        /\ reqs[r].q.filename = "app-win.exe"
        /\ reqs[r].q.ua = "mac"
        /\ reqs[r].pc = "done"
        /\ reqs[r].served = [id |-> reqs[r].asset.id, kind |-> "full"]

\* a named file the resolved release does not have
C10_WitnessMissing ==
    \E r \in Downloads :
        /\ reqs[r].q.filename = "other.bin"
        /\ reqs[r].version # 0
        /\ reqs[r].err = "NoDownload"

\* ------------------------------------------------------------- C11, C12
Pending(i) == backend.fetches[i].state = "pending"

\* C11: callers of the release list while none is held under the current key
\* share one backend call: no two calls made under one key are in flight
\* together, and every caller waiting since the current key waits on the one
\* call in flight, whose result it gets.
C11_ListSingleFlight ==
    /\ \A i \in DOMAIN backend.fetches, j \in DOMAIN backend.fetches :
          (i # j /\ Pending(i) /\ Pending(j))
              => backend.fetches[i].key # backend.fetches[j].key
    /\ \A c \in Req :
          (listers[c].pc = "waiting" /\ Pending(listers[c].fetch))
              => /\ backend.fetches[listers[c].fetch].key = listers[c].key
                 /\ \A d \in Req :
                      (listers[d].pc = "waiting" /\ listers[d].key = listers[c].key
                       /\ Pending(listers[d].fetch))
                          => listers[d].fetch = listers[c].fetch
    /\ \A c \in Req :
          listers[c].pc = "done"
              => listers[c].result = backend.fetches[listers[c].fetch].state

\* two callers wait on the same backend call
C11_Witness ==
    \E c \in Req, d \in Req :
        /\ c # d
        /\ listers[c].pc = "waiting" /\ listers[d].pc = "waiting"
        /\ listers[c].fetch = listers[d].fetch
        /\ Pending(listers[c].fetch)
        /\ Len(backend.fetches) = 1

C13_DisconnectKeepsWrite ==
    /\ [](\A i \in DOMAIN cache : cache[i].kind # "partial")
    /\ [][\A r \in Req :
            (AssetStreamOk(r) /\ reqs[r].client = "gone")
                => /\ CacheHas(cache', reqs[r].asset.id)
                   /\ CacheEntry(cache', reqs[r].asset.id).kind = "full"
                   /\ CacheEntry(cache', reqs[r].asset.id).size = reqs[r].asset.size
                   /\ reqs'[r].served.kind = "partial"]_vars

\* a request whose client went away has ended, and its asset is in the cache
\* in full
C13_Witness ==
    \E r \in Req :
        /\ reqs[r].pc = "done" /\ reqs[r].client = "gone"
        /\ reqs[r].served.kind = "partial"
        /\ CacheHas(cache, reqs[r].asset.id)
        /\ CacheEntry(cache, reqs[r].asset.id).kind = "full"

C17_HitSkipsBackend ==
    /\ [](\A r \in Req :
            /\ reqs[r].pc \in {"streaming", "stalled"} => reqs[r].held = ""
            /\ reqs[r].pc = "reading" => reqs[r].held # "")
    /\ [][\A r \in Req :
            /\ (AssetStreamOk(r) \/ AssetStreamHttpError(r)) => reqs[r].held = ""
            /\ (reqs[r].held # "" /\ reqs'[r] # reqs[r] /\ reqs'[r].pc # "idle")
                   => /\ cache' = cache
                      /\ reqs'[r].served = [id |-> reqs[r].asset.id,
                                            kind |-> reqs[r].held]]_vars

\* a request was answered from the cache while another fetched its own asset
C17_Witness ==
    \E r \in Req, o \in Req :
        /\ reqs[r].pc = "done" /\ reqs[r].held # ""
        /\ reqs[r].served.id = reqs[r].asset.id
        /\ reqs[o].pc = "streaming"

\* ------------------------------------------------------------------ C15
\* the requests that lack a required input
Malformed(req) ==
    \/ /\ req.kind \in {"update", "osx"}
       /\ (req.q.tag = 0 \/ req.q.platform = "")
    \/ /\ req.kind = "download"
       /\ req.q.filename = "" /\ req.q.platform = "" /\ UADetect(req.q.ua) = ""

\* C15: an update request without version or platform, and a download with
\* no file name, no platform and no platform detectable from the user agent,
\* end at once with an error, before any release is resolved, anything is
\* read from the backend or the cache is touched, and nothing is retried.
C15_MalformedRejected ==
    /\ [](\A r \in Req :
            Malformed(reqs[r])
                => /\ reqs[r].pc = "done"
                   /\ reqs[r].err \in {"RequiresVersion", "RequiresPlatform", "NoPlatform"}
                   /\ reqs[r].queries = <<>>
                   /\ reqs[r].version = 0 /\ reqs[r].asset = NoAsset
                   /\ reqs[r].status = 0 /\ reqs[r].served = NoContent
                   /\ reqs[r].location = NoLocation)
    /\ [][\A r \in Req :
            Malformed(reqs'[r]) => (cache' = cache /\ backend' = backend)]_vars

\* an update request without a version, or a download without a platform, has
\* been rejected
C15_Witness ==
    \E r \in Req :
        \/ /\ reqs[r].kind = "update" /\ reqs[r].q.tag = 0
           /\ reqs[r].err = "RequiresVersion"
        \/ /\ reqs[r].kind = "download" /\ reqs[r].q.platform = ""
           /\ reqs[r].err = "NoPlatform"

\* ------------------------------------------------------------------ C16
\* C16: a download of a specific tag queries the wildcard channel whatever
\* channel was asked for, resolves once, and a failed resolution is the error
\* of the request, unchanged.
C16_TagDisablesChannel ==
    \A r \in Req :
        (reqs[r].kind = "download" /\ reqs[r].q.tag # LATEST
         /\ reqs[r].err # "NoPlatform")
            => /\ Len(reqs[r].queries) = 1
               /\ reqs[r].queries[1].channel = "*"
               /\ reqs[r].queries[1].tag = reqs[r].q.tag
               /\ reqs[r].queries[1].result # "ok"
                      => (reqs[r].pc = "done" /\ reqs[r].err = reqs[r].queries[1].result)

\* a download of a tag no release has failed with the error of its only
\* resolution
C16_Witness ==
    \E r \in Req :
        /\ reqs[r].kind = "download" /\ reqs[r].q.tag # LATEST
        /\ Len(reqs[r].queries) = 1
        /\ reqs[r].queries[1].channel = "*"
        /\ reqs[r].err = "NotFound"

\* ------------------------------------------------------------------ C18
\* the releases a notes request matches, highest version first
NotesMatched(req) ==
    SortDesc({ rel \in releases : req.q.tag # LATEST => rel.tag >= req.q.tag })

\* C18: a notes request that matches at least one release ends with a
\* response carrying the notes of all matched releases, highest version
\* first, whatever type its Accept header selects, the JSON answer with the
\* date of the highest; it ends with an error only when none matches.
C18_NotesAnswered ==
    \A r \in Req :
        (reqs[r].kind = "notes" /\ reqs[r].err # "UpstreamFailure")
            => LET matched == NotesMatched(reqs[r])
               IN IF matched = <<>>
                  THEN reqs[r].err = "NoVersionsMatching" /\ reqs[r].status = 0
                  ELSE /\ reqs[r].err = ""
                       /\ reqs[r].status = 200
                       /\ Len(reqs[r].body.notes) = Len(matched)
                       /\ reqs[r].q.accept = "application/json"
                             => /\ reqs[r].body.notes = NotesMerge(matched)
                                /\ reqs[r].body.pub_date
                                      = ToISOString(matched[1].published_at)

\* ------------------------------------------------------------------ C19
\* the guarded work of a request has started
WorkStarted(req) ==
    \/ req.pc \in {"streaming", "reading", "stalled"}
    \/ req.status # 0
    \/ req.held # ""
    \/ req.served # NoContent
    \/ req.err = "APIError"

\* C19: serving an asset, and calling an API method, start only when every
\* before-hook registered under 'download', respectively 'api', has completed
\* without error; when a before-hook fails the work never starts and the
\* error of the hook is the one the caller gets.
C19_HooksGateWork ==
    /\ [](\A r \in Req :
            /\ WorkStarted(reqs[r]) => reqs[r].hooked = hooks[HookName(reqs[r])]
            /\ reqs[r].err = "HookError"
                  => (~WorkStarted(reqs[r]) /\ reqs[r].pc = "done"))
    /\ [][\A r \in Req :
            /\ BeforeHook(r, "fail")
                  => (reqs'[r].err = "HookError" /\ cache' = cache)
            /\ (reqs[r].err = "HookError" /\ reqs'[r].pc # "idle")
                  => reqs'[r] = reqs[r]]_vars

\* a download was served after its two before-hooks had passed
C19_Witness ==
    \E r \in Req :
        /\ hooks["download"] = 2
        /\ reqs[r].served.kind = "full" /\ reqs[r].hooked = 2

\* ------------------------------------------------------------------ C20
\* C20: a request never has both a response started and an error passed to
\* next, and a request that has ended has one of the two; a failure after
\* the asset started streaming is not passed to next as well.
C20_OneOutcome ==
    \A r \in Req :
        /\ ~(reqs[r].status # 0 /\ reqs[r].err # "")
        /\ reqs[r].pc = "done" => (reqs[r].status # 0 \/ reqs[r].err # "")

====
